---- MODULE Spec2Model ----
(***************************************************************************)
(* A model of the identity store and the face-targeted crop of the         *)
(* auto-video-editor repository: Profile (profiling.py), ProfilesManager   *)
(* (profiling.py) and crop_frame_around_face (video_generation.py).        *)
(*                                                                         *)
(* Numbers.  A face encoding is a vector of floats and the distance of two *)
(* encodings is the Euclidean norm of their difference                     *)
(* (face_recognition.face_distance).  The model uses vectors of length 1   *)
(* with integer coordinates, so the distance is |a - b|, and measures      *)
(* distances and tolerances in parts of Unit: the float 1.0 is Unit.  An   *)
(* average is kept as the exact fraction sum/len.                          *)
(***************************************************************************)
EXTENDS Integers, Sequences, FiniteSets, TLC

VARIABLES
    profile,    \* the Profile object the Profile operations act on
    fs,         \* the files on disk: filename -> parsed JSON content
    profiles,   \* ProfilesManager.profiles, the class attribute (a dict)
    directory,  \* per manager: its instance attribute `directory`, if set
    frame,      \* the frame given to crop_frame_around_face, as detected
    pc,         \* position of the run that applies a pure function
    out         \* the last call: operation, arguments, state before, result

vars == <<profile, fs, profiles, directory, frame, pc, out>>

-----------------------------------------------------------------------------
(* Bounds of the model *)

\* 1.0 in model units: a distance or a tolerance t stands for t / Unit
Unit == 2
\* coordinates of an encoding are 0..MaxEnc
MaxEnc == 2
\* tolerances are 0..MaxTol
MaxTol == 2
\* a Profile holds at most MaxLen encodings
MaxLen == 3

Encodings == 0..MaxEnc
Tolerances == 0..MaxTol
\* an optional argument: <<>> is None, <<v>> is the value v
Optional(S) == {<<>>} \cup {<<v>> : v \in S}

Ids == {"a", "b"}

NoCall == [op |-> "none"]

-----------------------------------------------------------------------------
(* face_recognition.face_distance for vectors of length 1 *)

Abs(x) == IF x < 0 THEN -x ELSE x

face_distance(face_encodings, face_to_compare) ==
    [i \in 1..Len(face_encodings) |-> Abs(face_encodings[i] - face_to_compare)]

RECURSIVE sum(_)
sum(s) == IF s = <<>> THEN 0 ELSE Head(s) + sum(Tail(s))

\* a fraction num/den (den > 0) against a whole number of units
FracGt(q, t) == q.num > t * q.den

-----------------------------------------------------------------------------
(* Profile *)

Profile(id, face_encodings, add_face_encoding_default_tolerance) ==
    [id |-> id,
     face_encodings |-> face_encodings,
     add_face_encoding_default_tolerance |-> add_face_encoding_default_tolerance]

\* returns (average distance, every distance); (1, []) for no saved encodings
face_encoding_distance_against_saved_encodings(self, face_encoding_to_check) ==
    IF Len(self.face_encodings) = 0
    THEN [avg |-> [num |-> Unit, den |-> 1], individual |-> <<>>]
    ELSE LET face_distances == face_distance(self.face_encodings, face_encoding_to_check)
         IN  [avg |-> [num |-> sum(face_distances), den |-> Len(face_distances)],
              individual |-> face_distances]

\* mutant: force_add is ignored, the similarity check always runs
add_face_encoding_checks_forced(self, face_encoding, tolerance, check_against_every_saved_encoding, force_add) ==
    LET tol == IF tolerance = <<>> THEN self.add_face_encoding_default_tolerance
               ELSE tolerance[1]
        d == face_encoding_distance_against_saved_encodings(self, face_encoding)
        rejected ==
            IF ~check_against_every_saved_encoding
            THEN ~FracGt(d.avg, tol)
            ELSE \E i \in 1..Len(d.individual) : d.individual[i] > tol
    IN  IF rejected
        THEN [ret |-> FALSE, self |-> self]
        ELSE [ret |-> TRUE,
              self |-> [self EXCEPT !.face_encodings = Append(@, face_encoding)]]

\* mutant: the check against every saved encoding tests the average instead
add_face_encoding_every_is_average(self, face_encoding, tolerance, check_against_every_saved_encoding, force_add) ==
    LET tol == IF tolerance = <<>> THEN self.add_face_encoding_default_tolerance
               ELSE tolerance[1]
        d == face_encoding_distance_against_saved_encodings(self, face_encoding)
        rejected ==
            /\ ~force_add
            /\ IF ~check_against_every_saved_encoding
               THEN ~FracGt(d.avg, tol)
               ELSE FracGt(d.avg, tol)
    IN  IF rejected
        THEN [ret |-> FALSE, self |-> self]
        ELSE [ret |-> TRUE,
              self |-> [self EXCEPT !.face_encodings = Append(@, face_encoding)]]

\* the return value and the Profile after the call
add_face_encoding(self, face_encoding, tolerance, check_against_every_saved_encoding, force_add) ==
    LET tol == IF tolerance = <<>> THEN self.add_face_encoding_default_tolerance
               ELSE tolerance[1]
        d == face_encoding_distance_against_saved_encodings(self, face_encoding)
        rejected ==
            /\ ~force_add
            /\ IF ~check_against_every_saved_encoding
               THEN ~FracGt(d.avg, tol)
               ELSE \E i \in 1..Len(d.individual) : d.individual[i] > tol
    IN  IF rejected
        THEN [ret |-> FALSE, self |-> self]
        ELSE [ret |-> TRUE,
              self |-> [self EXCEPT !.face_encodings = Append(@, face_encoding)]]

clear_face_encodings(self) == [self EXCEPT !.face_encodings = <<>>]

AddFaceEncoding(face_encoding, tolerance, every, force_add) ==
    /\ Len(profile.face_encodings) < MaxLen
    /\ LET r == add_face_encoding(profile, face_encoding, tolerance, every, force_add)
       IN  /\ profile' = r.self
           /\ out' = [op |-> "add_face_encoding",
                      before |-> profile,
                      face_encoding |-> face_encoding,
                      tolerance |-> tolerance,
                      every |-> every,
                      force_add |-> force_add,
                      ret |-> r.ret]
    /\ UNCHANGED <<fs, profiles, directory, frame, pc>>

ClearFaceEncodings ==
    /\ profile' = clear_face_encodings(profile)
    /\ out' = [op |-> "clear_face_encodings"]
    /\ UNCHANGED <<fs, profiles, directory, frame, pc>>

\* the variables the Profile operations do not use
IdleStore == /\ fs = [x \in {} |-> x]
             /\ profiles = [x \in {} |-> x]
             /\ directory = [x \in {} |-> x]
IdleCrop == /\ frame = << >>
            /\ pc = "idle"

InitProfile ==
    /\ profile \in {Profile("a", <<>>, t) : t \in Tolerances}
    /\ out = NoCall
    /\ IdleStore
    /\ IdleCrop

NextProfile ==
    \/ \E e \in Encodings, t \in Optional(Tolerances), every \in BOOLEAN, force \in BOOLEAN :
          AddFaceEncoding(e, t, every, force)
    \/ ClearFaceEncodings

SpecProfile == InitProfile /\ [][NextProfile]_vars

-----------------------------------------------------------------------------
(* Files.  A filename is the sequence of its parts, a stem without a period *)
(* and then its extensions: "a.profile.json" is <<"a", ".profile", ".json">>.*)
(* A path is <<directory, filename>>.  A file holds JSON text; the model    *)
(* keeps what json.load returns for it.                                     *)

JStr(s) == [type |-> "str", s |-> s, n |-> 0, l |-> <<>>]
JFloat(n) == [type |-> "float", s |-> "", n |-> n, l |-> <<>>]
JInt(n) == [type |-> "int", s |-> "", n |-> n, l |-> <<>>]
JList(l) == [type |-> "list", s |-> "", n |-> 0, l |-> l]

\* d with d[k] = v
DictSet(d, k, v) == [x \in DOMAIN d \cup {k} |-> IF x = k THEN v ELSE d[x]]
DictPop(d, k) == [x \in DOMAIN d \ {k} |-> d[x]]
EmptyDict == [x \in {} |-> x]

\* str.endswith for a filename and an extension of one or of two parts
EndsWith(name, ext) ==
    /\ Len(name) > Len(ext)
    /\ SubSeq(name, Len(name) - Len(ext) + 1, Len(name)) = ext
\* pathlib's Path(name).suffix
PathSuffix(name) == IF Len(name) >= 2 THEN name[Len(name)] ELSE ""

\* NDArray.tolist() and numpy.array() for a vector of length 1
tolist(NDArray) == <<NDArray>>
numpy_array(list) == list[1]

_NDArray_list_to_list_list(NDArray_list) ==
    [i \in 1..Len(NDArray_list) |-> tolist(NDArray_list[i])]

_list_list_to_NDArray_list(list_list) ==
    [i \in 1..Len(list_list) |-> numpy_array(list_list[i])]

\* what a path holds: a directory, or a file whose text json.load rejects
\* ("text"), reads as a list ("array") or reads as a dict ("object": members)
Directory == [kind |-> "directory", members |-> EmptyDict]
File(kind, members) == [kind |-> kind, members |-> members]
\* the path of a directory itself
DirPath(dir) == <<dir, <<>>>>

Raise(kind, detail) == [raised |-> kind, detail |-> detail]
Return(value) == [raised |-> "", ret |-> value]

\* Profile.save_to_file: the path written (or the exception) and the files
\* after it.  json.dumps writes a str as a string, a float as a number with a
\* fraction and the lists as arrays, and json.load reads each back as it was.
save_to_file(self, files, dir, filename) ==
    LET name1 == IF filename = <<>> THEN <<self.id>> ELSE filename[1]
        name2 == IF ~EndsWith(name1, <<".json">>) THEN name1 \o <<".json">> ELSE name1
        target_filepath == <<dir, name2>>
        _dict == [k \in {"id", "face_encoding_tolerance", "face_encodings"} |->
                    CASE k = "id" -> JStr(self.id)
                      [] k = "face_encoding_tolerance" ->
                            JFloat(self.add_face_encoding_default_tolerance)
                      [] k = "face_encodings" ->
                            JList(_NDArray_list_to_list_list(self.face_encodings))]
        made == DictSet(files, DirPath(dir), Directory)
    IN  IF DirPath(dir) \in DOMAIN files /\ files[DirPath(dir)].kind # "directory"
        THEN [result |-> Raise("FileExistsError", ""), files |-> files]
        ELSE IF target_filepath \in DOMAIN made /\ made[target_filepath].kind = "directory"
        THEN [result |-> Raise("OSError", ""), files |-> made]
        ELSE [result |-> Return(target_filepath),
              files |-> DictSet(made, target_filepath, File("object", _dict))]

load_expected_keys == <<"id", "face_encodings", "add_face_encoding_default_tolerance">>
load_expected_types ==
    [k \in {"id", "face_encodings", "add_face_encoding_default_tolerance"} |->
        CASE k = "id" -> "str"
          [] k = "face_encodings" -> "list"
          [] k = "add_face_encoding_default_tolerance" -> "float"]

\* Profile.load_from_file: the Profile returned or the exception raised
load_from_file(files, filepath) ==
    IF filepath \notin DOMAIN files THEN Raise("FileNotFoundError", "")
    ELSE IF PathSuffix(filepath[2]) # ".json" THEN Raise("Exception", "")
    ELSE IF files[filepath].kind = "directory" THEN Raise("OSError", "")
    ELSE IF files[filepath].kind = "text" THEN Raise("JSONDecodeError", "")
    ELSE IF files[filepath].kind = "array" THEN Raise("AttributeError", "")
    ELSE
    LET data == files[filepath].members
        missing == {i \in 1..Len(load_expected_keys) : load_expected_keys[i] \notin DOMAIN data}
        mistyped == {i \in 1..Len(load_expected_keys) :
                        data[load_expected_keys[i]].type
                            # load_expected_types[load_expected_keys[i]]}
        First(S) == CHOOSE i \in S : \A j \in S : i <= j
    IN  IF missing # {} THEN Raise("KeyError", load_expected_keys[First(missing)])
        ELSE IF mistyped # {} THEN Raise("TypeError", load_expected_keys[First(mistyped)])
        ELSE Return(Profile(data["id"].s,
                            _list_list_to_NDArray_list(data["face_encodings"].l),
                            data["add_face_encoding_default_tolerance"].n))

SaveToFile(dir, filename) ==
    /\ LET r == save_to_file(profile, fs, dir, filename)
       IN  /\ fs' = r.files
           /\ out' = [op |-> "save_to_file", result |-> r.result]
    /\ UNCHANGED <<profile, profiles, directory, frame, pc>>

LoadFromFile(filepath) ==
    /\ out' = [op |-> "load_from_file", filepath |-> filepath,
               result |-> load_from_file(fs, filepath)]
    /\ UNCHANGED <<profile, fs, profiles, directory, frame, pc>>

RECURSIVE SeqsUpTo(_, _)
SeqsUpTo(S, n) ==
    IF n = 0 THEN {<<>>}
    ELSE LET shorter == SeqsUpTo(S, n - 1)
         IN  shorter \cup {Append(q, x) : q \in shorter, x \in S}

\* the filenames a caller passes to save_to_file, and the paths it loads
SaveNames == {<<"p">>, <<"p", ".json">>, <<"p", ".profile", ".json">>}
LoadPaths == {<<"dir", <<id, ".json">>>> : id \in Ids}
                \cup {<<"dir", n>> : n \in SaveNames}

\* any Profile, nothing saved yet
InitFile ==
    /\ profile \in {Profile(id, encs, t) :
                        id \in Ids, encs \in SeqsUpTo(Encodings, MaxLen), t \in Tolerances}
    /\ fs = EmptyDict
    /\ profiles = EmptyDict
    /\ directory = EmptyDict
    /\ out = NoCall
    /\ IdleCrop

NextFile ==
    \/ \E filename \in Optional(SaveNames) : SaveToFile("dir", filename)
    \/ \E filepath \in LoadPaths : LoadFromFile(filepath)

\* every file of this specification was written by save_to_file of `profile`
SpecFile == InitFile /\ [][NextFile]_vars

-----------------------------------------------------------------------------
(* ProfilesManager.  `profiles` is declared in the class body and never     *)
(* assigned on an instance, so self.profiles is the one dict of the class;  *)
(* `directory` is assigned on the instance by save_to_directory.  A Profile *)
(* object is told from another by its fields.  Paths are Windows paths (as  *)
(* in main.py): the "\*" of validate_directory is a separator and a         *)
(* wildcard.                                                                *)

Managers == {"A", "B"}

profile_file_ext == <<".profile", ".json">>

\* self.profiles of the instance m: no method assigns the attribute on an
\* instance, so the lookup ends at the dict of the class
self_profiles(m) == profiles

exists_profile(reg, profile_id) == profile_id \in DOMAIN reg

\* mutant: the new Profile replaces the one registered under its id
add_profile_overwrites(reg, p) ==
    [result |-> Return(TRUE), profiles |-> DictSet(reg, p.id, p)]

\* the result (True or ProfileExistsError) and the dict after the call
add_profile(reg, p) ==
    IF exists_profile(reg, p.id)
    THEN [result |-> Raise("ProfileExistsError", p.id), profiles |-> reg]
    ELSE [result |-> Return(TRUE), profiles |-> DictSet(reg, p.id, p)]

delete_profile(reg, profile_id) ==
    [result |-> Return(profile_id \in DOMAIN reg), profiles |-> DictPop(reg, profile_id)]

get_profile(reg, profile_id) ==
    IF ~exists_profile(reg, profile_id) THEN Raise("ProfileNotExistsError", profile_id)
    ELSE Return(reg[profile_id])

\* __init__: add_profile for each given Profile, until one raises
RECURSIVE __init__(_, _)
__init__(reg, profs) ==
    IF profs = <<>> THEN [result |-> Return("None"), profiles |-> reg]
    ELSE LET r == add_profile(reg, Head(profs))
         IN  IF r.result.raised # "" THEN r ELSE __init__(r.profiles, Tail(profs))

validate_keys == <<"id", "add_face_encoding_default_tolerance", "face_encodings">>
key_type_map ==
    [k \in {"id", "add_face_encoding_default_tolerance", "face_encodings"} |->
        CASE k = "id" -> "str"
          [] k = "add_face_encoding_default_tolerance" -> "float"
          [] k = "face_encodings" -> "list[list[float]]"]

\* typing.get_origin of a value json.load returned (a str, a number, a list):
\* the value is no generic alias, so the answer is None
get_origin(value) == "None"

\* True, or the exception raised; the ValueError for the keys carries the
\* missing keys and the keys of an invalid type, as its message lists them
validate_profile_file(files, profile_path) ==
    IF profile_path \notin DOMAIN files THEN Raise("FileNotFoundError", "")
    ELSE IF files[profile_path].kind = "directory" THEN Raise("ValueError", "not a file")
    ELSE IF ~EndsWith(profile_path[2], profile_file_ext) THEN Raise("ValueError", "extension")
    ELSE IF files[profile_path].kind = "text" THEN Raise("JSONDecodeError", "")
    ELSE IF files[profile_path].kind # "object" THEN Raise("ValueError", "not a dict")
    ELSE
    LET data == files[profile_path].members
        missing_keys == SelectSeq(validate_keys, LAMBDA key : key \notin DOMAIN data)
        incorrect_type_keys ==
            SelectSeq(validate_keys,
                      LAMBDA key : /\ key \in DOMAIN data
                                   /\ get_origin(data[key]) = key_type_map[key])
    IN  IF Len(missing_keys) > 0 \/ Len(incorrect_type_keys) > 0
        THEN Raise("ValueError", [path |-> profile_path,
                                  missing_keys |-> missing_keys,
                                  incorrect_type_keys |-> incorrect_type_keys])
        ELSE Return(TRUE)

\* glob.glob(abs_dir_path + "\*" + profile_file_ext): the matching paths, in
\* an order the file system chooses
GlobMatches(files, dir) ==
    {path \in DOMAIN files : path[1] = dir /\ EndsWith(path[2], profile_file_ext)}

RECURSIVE Orders(_)
Orders(S) ==
    IF S = {} THEN {<<>>}
    ELSE UNION {{<<x>> \o q : q \in Orders(S \ {x})} : x \in S}

\* the exceptions validate_profile_file raises for the paths, in order
RECURSIVE ValidationExceptions(_, _, _)
ValidationExceptions(files, paths, instantly_break_on_invalid) ==
    IF paths = <<>> THEN <<>>
    ELSE LET r == validate_profile_file(files, Head(paths))
         IN  IF r.raised = ""
             THEN ValidationExceptions(files, Tail(paths), instantly_break_on_invalid)
             ELSE IF instantly_break_on_invalid THEN <<r>>
             ELSE <<r>> \o ValidationExceptions(files, Tail(paths), instantly_break_on_invalid)

\* the profile paths found (as glob listed them), or the exception raised
validate_directory(files, dir, profile_paths, instantly_break_on_invalid) ==
    IF DirPath(dir) \notin DOMAIN files THEN Raise("FileNotFoundError", "")
    ELSE IF files[DirPath(dir)].kind # "directory" THEN Raise("ValueError", "not a directory")
    ELSE LET exceptions ==
                 ValidationExceptions(files, profile_paths, instantly_break_on_invalid)
         IN  IF Len(exceptions) > 0
             THEN Raise("ValueError", [dir |-> dir, exceptions |-> exceptions])
             ELSE Return(profile_paths)

load_profile_from_file(reg, files, filepath, validate) ==
    LET v == IF validate THEN validate_profile_file(files, filepath) ELSE Return(TRUE)
        loaded == load_from_file(files, filepath)
    IN  IF v.raised # "" THEN [result |-> v, profiles |-> reg]
        ELSE IF loaded.raised # "" THEN [result |-> loaded, profiles |-> reg]
        ELSE LET r == add_profile(reg, loaded.ret)
             IN  IF r.result.raised # "" THEN r
                 ELSE [result |-> Return("None"), profiles |-> r.profiles]

\* the loop of load_from_directory over the validated paths
RECURSIVE LoadEach(_, _, _)
LoadEach(reg, files, profile_paths) ==
    IF profile_paths = <<>> THEN [result |-> Return("None"), profiles |-> reg]
    ELSE LET r == load_profile_from_file(reg, files, Head(profile_paths), FALSE)
         IN  IF r.result.raised # "" THEN r
             ELSE LoadEach(r.profiles, files, Tail(profile_paths))

\* mutant: the validation stops at the first invalid file
load_from_directory_fail_fast(reg, files, dir, listing) ==
    LET v == validate_directory(files, dir, listing, TRUE)
    IN  IF v.raised # "" THEN [result |-> v, profiles |-> reg]
        ELSE LoadEach(reg, files, v.ret)

load_from_directory(reg, files, dir, listing) ==
    LET v == validate_directory(files, dir, listing, FALSE)
    IN  IF v.raised # "" THEN [result |-> v, profiles |-> reg]
        ELSE LoadEach(reg, files, v.ret)

-----------------------------------------------------------------------------
(* The calls on a manager *)

NewManager(m, profs) ==
    /\ m \notin DOMAIN directory
    /\ LET r == __init__(profiles, profs)
       IN  /\ profiles' = r.profiles
           /\ directory' = IF r.result.raised = "" THEN DictSet(directory, m, <<>>)
                           ELSE directory
           /\ out' = [op |-> "__init__", m |-> m, before |-> profiles, given |-> profs,
                      result |-> r.result]
    /\ UNCHANGED <<profile, fs, frame, pc>>

AddProfile(m, p) ==
    /\ m \in DOMAIN directory
    /\ LET r == add_profile(profiles, p)
       IN  /\ profiles' = r.profiles
           /\ out' = [op |-> "add_profile", m |-> m, before |-> profiles,
                      profile |-> p, result |-> r.result]
    /\ UNCHANGED <<profile, fs, directory, frame, pc>>

DeleteProfile(m, profile_id) ==
    /\ m \in DOMAIN directory
    /\ LET r == delete_profile(profiles, profile_id)
       IN  /\ profiles' = r.profiles
           /\ out' = [op |-> "delete_profile", m |-> m, before |-> profiles,
                      profile_id |-> profile_id, result |-> r.result]
    /\ UNCHANGED <<profile, fs, directory, frame, pc>>

ValidateProfileFile(profile_path) ==
    /\ out' = [op |-> "validate_profile_file", profile_path |-> profile_path,
               result |-> validate_profile_file(fs, profile_path)]
    /\ UNCHANGED <<profile, fs, profiles, directory, frame, pc>>

LoadProfileFromFile(m, filepath, validate) ==
    /\ m \in DOMAIN directory
    /\ LET r == load_profile_from_file(profiles, fs, filepath, validate)
       IN  /\ profiles' = r.profiles
           /\ out' = [op |-> "load_profile_from_file", m |-> m, before |-> profiles,
                      filepath |-> filepath, validate |-> validate, result |-> r.result]
    /\ UNCHANGED <<profile, fs, directory, frame, pc>>

LoadFromDirectory(m, dir) ==
    /\ m \in DOMAIN directory
    /\ \E listing \in Orders(GlobMatches(fs, dir)) :
          LET r == load_from_directory(profiles, fs, dir, listing)
          IN  /\ profiles' = r.profiles
              /\ out' = [op |-> "load_from_directory", m |-> m, before |-> profiles,
                         dir |-> dir, listing |-> listing, result |-> r.result]
    /\ UNCHANGED <<profile, fs, directory, frame, pc>>

-----------------------------------------------------------------------------
(* What a profile directory can hold *)

\* at most MaxFiles record files in the directory
MaxFiles == 2

Record(id, tolerance, encodings) ==
    File("object",
         [k \in {"id", "add_face_encoding_default_tolerance", "face_encodings"} |->
            CASE k = "id" -> id
              [] k = "add_face_encoding_default_tolerance" -> tolerance
              [] k = "face_encodings" -> encodings])

\* well-formed records of "a" and of "b"; a record whose id and tolerance are
\* whole numbers and whose encodings are a string; a record with no id and a
\* string for the encodings
RecordFiles ==
    {Record(JStr(id), JFloat(1), JList(<<<<1>>>>)) : id \in Ids}
    \cup {Record(JInt(7), JInt(0), JStr("x")),
          File("object", [k \in {"add_face_encoding_default_tolerance", "face_encodings"} |->
                            IF k = "face_encodings" THEN JStr("x") ELSE JFloat(0)])}

RecordName(i) == <<ToString(i)>> \o profile_file_ext

\* a directory "dir" of record files and one other file, "notes.json"
DirectoryContents ==
    {[path \in {DirPath("dir"), <<"dir", <<"notes", ".json">>>>}
                 \cup {<<"dir", RecordName(i)>> : i \in DOMAIN records} |->
        IF path = DirPath("dir") THEN Directory
        ELSE IF path = <<"dir", <<"notes", ".json">>>> THEN File("text", EmptyDict)
        ELSE records[CHOOSE i \in DOMAIN records : path = <<"dir", RecordName(i)>>]] :
     records \in UNION {[S -> RecordFiles] : S \in SUBSET (1..MaxFiles)}}

\* the Profile objects a caller hands to a manager
Pool == {Profile("a", <<>>, 0), Profile("a", <<1>>, 1), Profile("b", <<>>, 0)}

ManagerPaths == {<<"dir", RecordName(i)>> : i \in 1..MaxFiles}
                    \cup {<<"dir", <<"notes", ".json">>>>}
ManagerDirs == {"dir", "none"}

InitManager ==
    /\ profile = Profile("a", <<>>, 0)
    /\ fs \in DirectoryContents
    /\ profiles = EmptyDict
    /\ directory = [m \in {"A"} |-> <<>>]
    /\ out = NoCall
    /\ IdleCrop

NextManager ==
    \/ \E m \in Managers, profs \in SeqsUpTo(Pool, 1) : NewManager(m, profs)
    \/ \E m \in Managers, p \in Pool : AddProfile(m, p)
    \/ \E m \in Managers, id \in Ids : DeleteProfile(m, id)
    \/ \E path \in ManagerPaths : ValidateProfileFile(path)
    \/ \E m \in Managers, path \in ManagerPaths, validate \in BOOLEAN :
          LoadProfileFromFile(m, path, validate)
    \/ \E m \in Managers, dir \in ManagerDirs : LoadFromDirectory(m, dir)

SpecManager == InitManager /\ [][NextManager]_vars

-----------------------------------------------------------------------------
(* save_to_directory.  The argument `directory` is <<>> for None.          *)

\* the loop of save_to_directory over the keys of the dict, in their order
RECURSIVE SaveEach(_, _, _, _)
SaveEach(reg, files, dir, profile_keys) ==
    IF profile_keys = <<>> THEN [result |-> Return("None"), files |-> files]
    ELSE LET got == get_profile(reg, Head(profile_keys))
             r == save_to_file(got.ret, files, dir,
                               <<<<Head(profile_keys)>> \o profile_file_ext>>)
         IN  IF got.raised # "" THEN [result |-> got, files |-> files]
             ELSE IF r.result.raised # "" THEN r
             ELSE SaveEach(reg, r.files, dir, Tail(profile_keys))

\* the exception raised, if any, the files and the instance's `directory`
\* after the call; Path(None) raises TypeError
save_to_directory(reg, files, self_directory, dir, update_default_dir, profile_keys) ==
    IF dir = <<>>
    THEN [result |-> Raise("TypeError", "Path(None)"), files |-> files,
          directory |-> self_directory]
    ELSE IF DirPath(dir[1]) \in DOMAIN files /\ files[DirPath(dir[1])].kind # "directory"
    THEN [result |-> Raise("FileExistsError", ""), files |-> files,
          directory |-> self_directory]
    ELSE LET r == SaveEach(reg, DictSet(files, DirPath(dir[1]), Directory), dir[1],
                           profile_keys)
         IN  [result |-> r.result, files |-> r.files,
              directory |-> IF r.result.raised = "" /\ update_default_dir THEN dir
                            ELSE self_directory]

SaveToDirectory(m, dir, update_default_dir) ==
    /\ m \in DOMAIN directory
    /\ \E profile_keys \in Orders(DOMAIN profiles) :
          LET r == save_to_directory(profiles, fs, directory[m], dir, update_default_dir,
                                     profile_keys)
          IN  /\ fs' = r.files
              /\ directory' = [directory EXCEPT ![m] = r.directory]
              /\ out' = [op |-> "save_to_directory", m |-> m, before |-> profiles,
                         directory |-> dir, update_default_dir |-> update_default_dir,
                         default_before |-> directory[m],
                         result |-> r.result]
    /\ UNCHANGED <<profile, profiles, frame, pc>>

SaveDirs == {"dir", "other"}

\* one manager, no profile registered, nothing on disk
InitSave ==
    /\ profile = Profile("a", <<>>, 0)
    /\ fs = EmptyDict
    /\ profiles = EmptyDict
    /\ directory = [m \in {"A"} |-> <<>>]
    /\ out = NoCall
    /\ IdleCrop

NextSave ==
    \/ \E p \in Pool : AddProfile("A", p)
    \/ \E id \in Ids : DeleteProfile("A", id)
    \/ \E dir \in Optional(SaveDirs), update_default_dir \in BOOLEAN :
          SaveToDirectory("A", dir, update_default_dir)

SpecSave == InitSave /\ [][NextSave]_vars

-----------------------------------------------------------------------------
(* crop_frame_around_face.  A frame is its shape <<rows, columns>> and the  *)
(* faces face_recognition finds in it, in the order it returns them: for    *)
(* each a location <<top, right, bottom, left>> and an encoding.  An image  *)
(* cut from the frame is the pair of its row range and its column range,    *)
(* <<start, stop>> each; [] is <<>>.                                        *)

face_locations(fr) == [i \in 1..Len(fr.faces) |-> fr.faces[i].location]
face_encodings(fr) == [i \in 1..Len(fr.faces) |-> fr.faces[i].encoding]

\* face_recognition.compare_faces: list(face_distance(known, e) <= tolerance)
compare_faces(known_face_encodings, face_encoding_to_check, tolerance) ==
    [i \in 1..Len(known_face_encodings) |->
        face_distance(known_face_encodings, face_encoding_to_check)[i] <= tolerance]

\* mutant: an empty list of comparisons counts as no match
all_of_some(bools) == Len(bools) > 0 /\ \A i \in 1..Len(bools) : bools[i]
all(bools) == \A i \in 1..Len(bools) : bools[i]
any(bools) == \E i \in 1..Len(bools) : bools[i]

\* int(start + (extent - crop_extent) / 2): the float, cut towards zero
int_centred(start, extent, crop_extent) ==
    LET twice == 2 * start + (extent - crop_extent)
    IN  IF twice >= 0 THEN twice \div 2 ELSE -((-twice) \div 2)

Min(a, b) == IF a < b THEN a ELSE b
Max(a, b) == IF a > b THEN a ELSE b

\* the indices a[start : stop] takes from an axis of n entries
slice(start, stop, n) ==
    LET norm(x) == IF x < 0 THEN Max(x + n, 0) ELSE Min(x, n)
    IN  <<norm(start), Max(norm(start), norm(stop))>>

\* mutant: the far edge of the frame is not hugged
hug_near_edge_only(crop_to, crop_extent, frame_extent) ==
    IF crop_to < 0 THEN 0 ELSE crop_to

\* the crop position on one axis, hugging the frame's edges
hug(crop_to, crop_extent, frame_extent) ==
    IF crop_to < 0 THEN 0
    ELSE IF crop_to + crop_extent > frame_extent THEN frame_extent - crop_extent
    ELSE crop_to

NoFaceResult ==
    [success |-> FALSE, image |-> <<>>, position |-> <<-1, -1>>, dimensions |-> <<-1, -1>>]

\* mutant: the bottom edge is hugged with the crop's width
crop_around_bottom_by_width(fr, crop_to_dimensions, target_face_location_in_frame) ==
    LET frame_width == fr.shape[2]
        frame_height == fr.shape[1]
        face_left == target_face_location_in_frame[4]
        face_right == target_face_location_in_frame[2]
        face_top == target_face_location_in_frame[1]
        face_bottom == target_face_location_in_frame[3]
        face_width == face_right - face_left
        face_height == face_bottom - face_top
        crop_to_width == crop_to_dimensions[1]
        crop_to_height == crop_to_dimensions[2]
        crop_to_left == hug(int_centred(face_left, face_width, crop_to_width),
                            crop_to_width, frame_width)
        centred_top == int_centred(face_top, face_height, crop_to_height)
        crop_to_top == IF centred_top < 0 THEN 0
                       ELSE IF centred_top + crop_to_height > frame_height
                            THEN frame_height - crop_to_width
                       ELSE centred_top
        cropped_frame == <<slice(crop_to_top, crop_to_top + crop_to_height, frame_height),
                           slice(crop_to_left, crop_to_left + crop_to_width, frame_width)>>
    IN  [success |-> TRUE, image |-> cropped_frame,
         position |-> <<crop_to_left, crop_to_top>>,
         dimensions |-> <<crop_to_width, crop_to_height>>]

\* the lines after the search for the face, given the location found
crop_around(fr, crop_to_dimensions, target_face_location_in_frame) ==
    LET frame_width == fr.shape[2]
        frame_height == fr.shape[1]
        face_left == target_face_location_in_frame[4]
        face_right == target_face_location_in_frame[2]
        face_top == target_face_location_in_frame[1]
        face_bottom == target_face_location_in_frame[3]
        face_width == face_right - face_left
        face_height == face_bottom - face_top
        crop_to_width == crop_to_dimensions[1]
        crop_to_height == crop_to_dimensions[2]
        crop_to_left == hug(int_centred(face_left, face_width, crop_to_width),
                            crop_to_width, frame_width)
        crop_to_top == hug(int_centred(face_top, face_height, crop_to_height),
                           crop_to_height, frame_height)
        cropped_frame == <<slice(crop_to_top, crop_to_top + crop_to_height, frame_height),
                           slice(crop_to_left, crop_to_left + crop_to_width, frame_width)>>
    IN  [success |-> TRUE, image |-> cropped_frame,
         position |-> <<crop_to_left, crop_to_top>>,
         dimensions |-> <<crop_to_width, crop_to_height>>]

\* mutant: a face is taken when it matches any of the target encodings
crop_frame_around_face_any(fr, crop_to_dimensions, target_face_encodings, face_match_tolerance) ==
    LET matched == {i \in 1..Len(face_encodings(fr)) :
                      any(compare_faces(target_face_encodings, face_encodings(fr)[i],
                                        face_match_tolerance))}
    IN  IF matched = {} THEN NoFaceResult
        ELSE crop_around(fr, crop_to_dimensions,
                         face_locations(fr)[CHOOSE i \in matched : \A j \in matched : i <= j])

\* mutant: the search does not stop at the first face that matches
crop_frame_around_face_last(fr, crop_to_dimensions, target_face_encodings, face_match_tolerance) ==
    LET matched == {i \in 1..Len(face_encodings(fr)) :
                      all(compare_faces(target_face_encodings, face_encodings(fr)[i],
                                        face_match_tolerance))}
    IN  IF matched = {} THEN NoFaceResult
        ELSE crop_around(fr, crop_to_dimensions,
                         face_locations(fr)[CHOOSE i \in matched : \A j \in matched : i >= j])

\* the tuple returned: (success, cropped frame, (left, top), (width, height))
crop_frame_around_face(fr, crop_to_dimensions, target_face_encodings, face_match_tolerance) ==
    LET matched == {i \in 1..Len(face_encodings(fr)) :
                      all(compare_faces(target_face_encodings, face_encodings(fr)[i],
                                        face_match_tolerance))}
    IN  IF matched = {} THEN NoFaceResult
        ELSE crop_around(fr, crop_to_dimensions,
                         face_locations(fr)[CHOOSE i \in matched : \A j \in matched : i <= j])

\* crop_frame: the slice of the frame, with no adjustment to its bounds
crop_frame(fr, crop_to_dimensions, crop_position) ==
    LET left == crop_position[1]
        top == crop_position[2]
        width == crop_to_dimensions[1]
        height == crop_to_dimensions[2]
    IN  <<slice(top, top + height, fr.shape[1]), slice(left, left + width, fr.shape[2])>>

CropFrameAroundFace(crop_to_dimensions, target_face_encodings, face_match_tolerance) ==
    /\ pc = "ready"
    /\ pc' = "done"
    /\ out' = [op |-> "crop_frame_around_face",
               crop_to_dimensions |-> crop_to_dimensions,
               target_face_encodings |-> target_face_encodings,
               face_match_tolerance |-> face_match_tolerance,
               result |-> crop_frame_around_face(frame, crop_to_dimensions,
                                                 target_face_encodings, face_match_tolerance)]
    /\ UNCHANGED <<profile, fs, profiles, directory, frame>>

-----------------------------------------------------------------------------
(* The frames and the arguments of the crop *)

\* a frame has 1..FrameMax rows and columns
FrameMax == 4
\* at most MaxFaces faces in a frame
MaxFaces == 3

\* encodings at distance 0 or 1 of each other, tolerances 0 and 1
CropEncodings == {0, 1}
CropTolerances == {0, 1}

Shapes == (1..FrameMax) \X (1..FrameMax)
\* the boxes <<top, right, bottom, left>> inside a frame of the shape
Boxes(shape) ==
    {b \in (0..shape[1]) \X (0..shape[2]) \X (0..shape[1]) \X (0..shape[2]) :
        b[1] < b[3] /\ b[4] < b[2]}
CornerBoxes(shape) == {<<0, 1, 1, 0>>, <<shape[1] - 1, shape[2], shape[1], shape[2] - 1>>}
Face(location, encoding) == [location |-> location, encoding |-> encoding]

\* a frame of any shape with one face anywhere in it, and the largest frame
\* with up to MaxFaces faces in two of its corners
Frames ==
    UNION {{[shape |-> shape, faces |-> <<Face(b, e)>>] :
                b \in Boxes(shape), e \in CropEncodings} : shape \in Shapes}
    \cup {[shape |-> <<FrameMax, FrameMax>>, faces |-> faces] :
            faces \in SeqsUpTo({Face(b, e) : b \in CornerBoxes(<<FrameMax, FrameMax>>),
                                             e \in CropEncodings}, MaxFaces)}

\* the lists of distinct target encodings, in ascending order
TargetLists == {<<>>, <<0>>, <<1>>, <<0, 1>>}

InitCrop ==
    /\ profile = Profile("a", <<>>, 0)
    /\ IdleStore
    /\ frame \in Frames
    /\ pc = "ready"
    /\ out = NoCall

NextCrop ==
    \E dims \in (1..(FrameMax + 1)) \X (1..(FrameMax + 1)),
       targets \in TargetLists,
       tolerance \in CropTolerances :
        CropFrameAroundFace(dims, targets, tolerance)

SpecCrop == InitCrop /\ [][NextCrop]_vars

-----------------------------------------------------------------------------
(* Properties of Profile.add_face_encoding, under SpecProfile *)

IsAdd == out.op = "add_face_encoding"
\* the tolerance the call uses: the argument, or the Profile's default
EffectiveTolerance ==
    IF out.tolerance = <<>> THEN out.before.add_face_encoding_default_tolerance
    ELSE out.tolerance[1]
Saved == out.before.face_encodings
DistanceToSaved(i) == Abs(Saved[i] - out.face_encoding)
RECURSIVE TotalDistance(_)
TotalDistance(n) == IF n = 0 THEN 0 ELSE DistanceToSaved(n) + TotalDistance(n - 1)
\* average distance <= tolerance, the average of no encodings being 1.0
AverageWithinTolerance ==
    IF Len(Saved) = 0 THEN Unit <= EffectiveTolerance
    ELSE TotalDistance(Len(Saved)) <= EffectiveTolerance * Len(Saved)
Accepted == out.ret /\ profile = [out.before EXCEPT !.face_encodings = Append(Saved, out.face_encoding)]
Rejected == ~out.ret /\ profile = out.before

\* C1: in AVERAGE mode without force, add_face_encoding accepts (appends and
\* returns true) if and only if the average distance to the saved encodings is
\* <= the effective tolerance; otherwise it returns false and leaves the
\* encodings as they were.
C1_AverageModeAcceptsIffWithin ==
    (IsAdd /\ ~out.every /\ ~out.force_add /\ Len(Saved) > 0) =>
        IF AverageWithinTolerance THEN Accepted ELSE Rejected

\* C2: a Profile with no saved encodings rejects in AVERAGE mode without force
\* whenever the effective tolerance is below 1.0, and accepts only if the
\* tolerance is >= 1.0.
C2_EmptyProfileRejectsBelowOne ==
    (IsAdd /\ ~out.every /\ ~out.force_add /\ Len(Saved) = 0) =>
        IF EffectiveTolerance < Unit THEN Rejected ELSE Accepted

\* C7: with force_add the call returns true and appends the encoding exactly
\* once at the end, whatever the Profile, the encoding, the tolerance and the
\* mode.
C7_ForceAlwaysAppends ==
    (IsAdd /\ out.force_add) =>
        /\ out.ret
        /\ Len(profile.face_encodings) = Len(Saved) + 1
        /\ profile.face_encodings = Append(Saved, out.face_encoding)
        /\ profile.id = out.before.id
        /\ profile.add_face_encoding_default_tolerance
              = out.before.add_face_encoding_default_tolerance

\* a forced add that neither mode would have let through without the force
C7_Witness ==
    /\ IsAdd /\ out.force_add /\ out.ret
    /\ Len(Saved) >= 2
    /\ AverageWithinTolerance
    /\ \E i \in 1..Len(Saved) : DistanceToSaved(i) > EffectiveTolerance

\* C8: in ALL mode without force, one saved encoding at a distance > tolerance
\* makes the call return false and leave the Profile unchanged, so an accepted
\* encoding is within tolerance of every saved encoding.
C8_AllModeRejectsOnAnyViolation ==
    (IsAdd /\ out.every /\ ~out.force_add) =>
        /\ (\E i \in 1..Len(Saved) : DistanceToSaved(i) > EffectiveTolerance) => Rejected
        /\ out.ret => \A i \in 1..Len(Saved) : DistanceToSaved(i) <= EffectiveTolerance

\* a rejection by one far encoding while another is at distance 0 and the
\* average is within tolerance
C8_Witness ==
    /\ IsAdd /\ out.every /\ ~out.force_add /\ ~out.ret
    /\ \E i \in 1..Len(Saved) : DistanceToSaved(i) > EffectiveTolerance
    /\ \E i \in 1..Len(Saved) : DistanceToSaved(i) = 0
    /\ AverageWithinTolerance

-----------------------------------------------------------------------------
(* Properties of Profile.save_to_file and Profile.load_from_file, under   *)
(* SpecFile                                                                *)

\* C3: loading a file that save_to_file wrote for a Profile succeeds and gives a
\* Profile with the same id, the same tolerance and the same encodings in the
\* same order.
C3_SaveLoadRoundTrip ==
    (out.op = "load_from_file" /\ out.filepath \in DOMAIN fs) =>
        /\ out.result.raised = ""
        /\ out.result.ret.id = profile.id
        /\ out.result.ret.add_face_encoding_default_tolerance
              = profile.add_face_encoding_default_tolerance
        /\ out.result.ret.face_encodings = profile.face_encodings

-----------------------------------------------------------------------------
(* Properties of ProfilesManager, under SpecManager *)

\* C4: a load_from_directory call that raises leaves the registry exactly as
\* it was before the call.
C4_FailedDirectoryLoadLeavesRegistry ==
    (out.op = "load_from_directory" /\ out.result.raised # "") =>
        profiles = out.before

ExpectedCoarseType ==
    [k \in {"id", "add_face_encoding_default_tolerance", "face_encodings"} |->
        CASE k = "id" -> "str"
          [] k = "add_face_encoding_default_tolerance" -> "float"
          [] k = "face_encodings" -> "list"]
Elements(q) == {q[i] : i \in 1..Len(q)}

\* C5: for an existing file with the record suffix that holds a mapping,
\* validate_profile_file returns true only if the three keys are present with
\* values of the expected coarse types, and otherwise raises one error that
\* lists every missing key and every present key of a wrong type.
C5_ValidationReportsEveryDefect ==
    (/\ out.op = "validate_profile_file"
     /\ out.profile_path \in DOMAIN fs
     /\ fs[out.profile_path].kind = "object"
     /\ EndsWith(out.profile_path[2], <<".profile", ".json">>)) =>
        LET data == fs[out.profile_path].members
            missing == {k \in DOMAIN ExpectedCoarseType : k \notin DOMAIN data}
            wrong == {k \in DOMAIN ExpectedCoarseType \cap DOMAIN data :
                        data[k].type # ExpectedCoarseType[k]}
        IN  IF missing = {} /\ wrong = {}
            THEN out.result.raised = "" /\ out.result.ret = TRUE
            ELSE /\ out.result.raised = "ValueError"
                 /\ Elements(out.result.detail.missing_keys) = missing
                 /\ Elements(out.result.detail.incorrect_type_keys) = wrong

\* C6: add_profile with an id already registered raises ProfileExistsError
\* and changes nothing; with a new id it registers the Profile under its id,
\* changes no other entry and returns true.
C6_AddProfileRejectsDuplicate ==
    out.op = "add_profile" =>
        IF out.profile.id \in DOMAIN out.before
        THEN /\ out.result.raised = "ProfileExistsError"
             /\ profiles = out.before
        ELSE /\ out.result.raised = ""
             /\ out.result.ret = TRUE
             /\ DOMAIN profiles = DOMAIN out.before \cup {out.profile.id}
             /\ profiles[out.profile.id] = out.profile
             /\ \A id \in DOMAIN out.before : profiles[id] = out.before[id]

\* a duplicate add of a Profile that differs from the registered one, next to
\* another entry
C6_Witness ==
    /\ out.op = "add_profile"
    /\ out.result.raised = "ProfileExistsError"
    /\ out.before[out.profile.id] # out.profile
    /\ DOMAIN out.before # {out.profile.id}

-----------------------------------------------------------------------------
(* Properties of crop_frame_around_face, under SpecCrop *)

IsCrop == out.op = "crop_frame_around_face"
\* face i of the frame is within the tolerance of every target encoding
MatchesEveryTarget(i) ==
    \A k \in 1..Len(out.target_face_encodings) :
        Abs(out.target_face_encodings[k] - frame.faces[i].encoding) <= out.face_match_tolerance
\* the whole number next to twice / 2 on the side of zero
TowardsZeroHalf(twice) ==
    CHOOSE c \in -Abs(twice)..Abs(twice) :
        \/ twice >= 0 /\ 2 * c <= twice /\ twice < 2 * c + 2
        \/ twice < 0 /\ 2 * c >= twice /\ twice > 2 * c - 2
\* the face-centred origin on one axis, clamped to the frame
ClampedOrigin(face_start, face_extent, target_extent, frame_extent) ==
    LET centred == TowardsZeroHalf(2 * face_start + face_extent - target_extent)
    IN  IF centred < 0 THEN 0
        ELSE IF centred + target_extent > frame_extent THEN frame_extent - target_extent
        ELSE centred
OriginAroundFace(i) ==
    LET box == frame.faces[i].location
    IN  <<ClampedOrigin(box[4], box[2] - box[4], out.crop_to_dimensions[1], frame.shape[2]),
          ClampedOrigin(box[1], box[3] - box[1], out.crop_to_dimensions[2], frame.shape[1])>>

\* C9: a successful crop returns the requested dimensions and, on each axis by
\* itself, the origin centred on the matched face (cut towards zero), moved to
\* 0 if negative and to frame_extent - target_extent if it would pass the far
\* edge; a 200x200 frame with the face (top 40, right 120, bottom 100, left 60)
\* and the target (80, 80) gives the origin (50, 30).
C9_CropOriginCentredAndClamped ==
    /\ (IsCrop /\ out.result.success) =>
          /\ out.result.dimensions = out.crop_to_dimensions
          /\ \E i \in 1..Len(frame.faces) :
                MatchesEveryTarget(i) /\ out.result.position = OriginAroundFace(i)
    /\ LET r == crop_frame_around_face(
                    [shape |-> <<200, 200>>, faces |-> <<Face(<<40, 120, 100, 60>>, 0)>>],
                    <<80, 80>>, <<0>>, 0)
       IN  r.success /\ r.position = <<50, 30>> /\ r.dimensions = <<80, 80>>

\* a crop no larger than the frame, moved to the left edge on one axis and to
\* the bottom edge on the other
C9_Witness ==
    /\ IsCrop /\ out.result.success
    /\ Len(out.target_face_encodings) >= 1
    /\ out.crop_to_dimensions[1] <= frame.shape[2]
    /\ out.crop_to_dimensions[2] <= frame.shape[1]
    /\ out.crop_to_dimensions[1] # out.crop_to_dimensions[2]
    /\ LET box == frame.faces[1].location
       IN  /\ 2 * box[4] + (box[2] - box[4]) - out.crop_to_dimensions[1] <= -2
           /\ out.result.position[1] = 0
           /\ TowardsZeroHalf(2 * box[1] + (box[3] - box[1]) - out.crop_to_dimensions[2])
                 + out.crop_to_dimensions[2] > frame.shape[1]
           /\ out.result.position[2] = frame.shape[1] - out.crop_to_dimensions[2]
           /\ out.result.position[2] > 0

\* C10: the crop succeeds if and only if some detected face matches every
\* target encoding at the tolerance; otherwise, also with no face detected, it
\* returns (False, [], (-1, -1), (-1, -1)).
C10_SuccessIffSomeFaceMatchesAll ==
    IsCrop =>
        /\ out.result.success <=> \E i \in 1..Len(frame.faces) : MatchesEveryTarget(i)
        /\ ~out.result.success =>
              /\ out.result.image = <<>>
              /\ out.result.position = <<-1, -1>>
              /\ out.result.dimensions = <<-1, -1>>

\* a failure although a detected face matches one of two target encodings
C10_Witness ==
    /\ IsCrop /\ ~out.result.success
    /\ Len(frame.faces) >= 1
    /\ \E i \in 1..Len(frame.faces), k \in 1..Len(out.target_face_encodings) :
          Abs(out.target_face_encodings[k] - frame.faces[i].encoding)
              <= out.face_match_tolerance

-----------------------------------------------------------------------------
(* Properties of ProfilesManager.save_to_directory, under SpecSave *)

\* the directory a save is meant for: the path given or, with no path given,
\* the default directory the manager remembers
SaveTarget == IF out.directory # <<>> THEN out.directory ELSE out.default_before
\* the file <id><suffix> under the directory holds what save_to_file writes
\* for the Profile registered under id
HoldsRecordOf(dir, id) ==
    LET path == <<dir, <<id, ".profile", ".json">>>>
    IN  /\ path \in DOMAIN fs
        /\ fs[path].kind = "object"
        /\ fs[path].members["id"] = JStr(id)
        /\ fs[path].members["face_encodings"]
              = JList([i \in 1..Len(profiles[id].face_encodings) |->
                          <<profiles[id].face_encodings[i]>>])

\* C11: save_to_directory writes one record file <id><suffix> per registered
\* profile under the path, sets the manager's default directory to the path
\* when update_default_dir is true and leaves it when false, and a call made
\* without a path saves to the remembered default directory.
C11_SaveWritesRecordsAndRemembersDirectory ==
    (out.op = "save_to_directory" /\ SaveTarget # <<>>) =>
        /\ out.result.raised = ""
        /\ \A id \in DOMAIN profiles : HoldsRecordOf(SaveTarget[1], id)
        /\ directory[out.m] = IF out.update_default_dir THEN SaveTarget
                              ELSE out.default_before

\* the part of C11 about a call that is given a path
SaveWithPathWritesAndRemembers ==
    (out.op = "save_to_directory" /\ out.directory # <<>>) =>
        /\ out.result.raised = ""
        /\ \A id \in DOMAIN profiles : HoldsRecordOf(out.directory[1], id)
        /\ directory[out.m] = IF out.update_default_dir THEN out.directory
                              ELSE out.default_before

-----------------------------------------------------------------------------
(* Isolation of the managers' registries, under SpecManager *)

\* C12: an add, delete or load on one manager leaves the registry of every
\* other manager as it was, and a manager constructed with no profiles starts
\* with an empty registry whatever the other managers hold.
C12_RegistriesAreIsolated ==
    /\ out.op \in {"add_profile", "delete_profile", "load_profile_from_file",
                   "load_from_directory"} =>
          \A other \in DOMAIN directory \ {out.m} : self_profiles(other) = out.before
    /\ (out.op = "__init__" /\ out.given = <<>> /\ out.result.raised = "") =>
          self_profiles(out.m) = EmptyDict

-----------------------------------------------------------------------------
(* The validation of a directory, under SpecManager *)

\* the record files found that validate_profile_file rejects, as listed
RejectedFiles ==
    SelectSeq(out.listing, LAMBDA path : validate_profile_file(fs, path).raised # "")

\* C13: load_from_directory validates every record file found, also after one
\* has failed, and if any fails it raises one error that holds the validation
\* failure of each of them: k rejected files give one error reporting all k.
C13_DirectoryErrorReportsEveryRejectedFile ==
    (out.op = "load_from_directory" /\ Len(RejectedFiles) > 0) =>
        /\ out.result.raised = "ValueError"
        /\ Len(out.result.detail.exceptions) = Len(RejectedFiles)
        /\ \A i \in 1..Len(RejectedFiles) :
              out.result.detail.exceptions[i] = validate_profile_file(fs, RejectedFiles[i])

\* a directory whose first and second record file are both rejected, and
\* one error that reports the two
C13_Witness ==
    /\ out.op = "load_from_directory"
    /\ Len(out.listing) >= 2
    /\ Len(RejectedFiles) = Len(out.listing)
    /\ out.result.raised = "ValueError"
    /\ Len(out.result.detail.exceptions) >= 2
    /\ out.result.detail.exceptions[1].detail.path # out.result.detail.exceptions[2].detail.path

-----------------------------------------------------------------------------
(* The face chosen and the rectangle cut, under SpecCrop *)

\* the first face, in the detector's order, that matches every target
FirstMatchingFace ==
    CHOOSE i \in 1..Len(frame.faces) :
        MatchesEveryTarget(i) /\ \A j \in 1..(i - 1) : ~MatchesEveryTarget(j)

\* C14: when several detected faces match every target encoding the crop is
\* centred on the first of them in the detector's order, never on a later
\* one, and the faces before it that do not match are skipped.
C14_FirstMatchingFaceWins ==
    (IsCrop /\ out.result.success) =>
        out.result.position = OriginAroundFace(FirstMatchingFace)

\* a face that does not match, then two that do at different places
C14_Witness ==
    /\ IsCrop /\ out.result.success
    /\ Len(frame.faces) >= 3
    /\ ~MatchesEveryTarget(1) /\ MatchesEveryTarget(2) /\ MatchesEveryTarget(3)
    /\ OriginAroundFace(2) # OriginAroundFace(3)
    /\ OriginAroundFace(2) # OriginAroundFace(1)
    /\ out.result.position = OriginAroundFace(2)

\* C15: when the target dimensions do not exceed the frame on either axis, the
\* rectangle of a successful crop lies inside the frame, and crop_frame with
\* the returned origin gives exactly width x height pixels.
C15_CropRectangleInsideFrame ==
    (/\ IsCrop /\ out.result.success
     /\ out.crop_to_dimensions[1] <= frame.shape[2]
     /\ out.crop_to_dimensions[2] <= frame.shape[1]) =>
        LET left == out.result.position[1]
            top == out.result.position[2]
            width == out.result.dimensions[1]
            height == out.result.dimensions[2]
            pixels == crop_frame(frame, out.result.dimensions, out.result.position)
        IN  /\ 0 <= left /\ left + width <= frame.shape[2]
            /\ 0 <= top /\ top + height <= frame.shape[1]
            /\ pixels[1][2] - pixels[1][1] = height
            /\ pixels[2][2] - pixels[2][1] = width
            /\ out.result.image = pixels

\* a crop no larger than the frame whose centred rectangle passes the right
\* edge and the top edge of the frame
C15_Witness ==
    /\ IsCrop /\ out.result.success
    /\ out.crop_to_dimensions[1] <= frame.shape[2]
    /\ out.crop_to_dimensions[2] <= frame.shape[1]
    /\ LET box == frame.faces[FirstMatchingFace].location
           centred_left == TowardsZeroHalf(2 * box[4] + (box[2] - box[4])
                                              - out.crop_to_dimensions[1])
       IN  /\ centred_left + out.crop_to_dimensions[1] > frame.shape[2]
           /\ out.result.position[1] < centred_left
           /\ 2 * box[1] + (box[3] - box[1]) - out.crop_to_dimensions[2] <= -2
           /\ out.result.position[2] = 0

\* C16: with no target encodings every detected face matches, so the crop
\* succeeds around the first detected face whenever a face is detected and
\* fails only when none is.
C16_NoTargetsTakesFirstFace ==
    (IsCrop /\ out.target_face_encodings = <<>>) =>
        /\ out.result.success <=> Len(frame.faces) >= 1
        /\ out.result.success =>
              LET box == frame.faces[1].location
              IN  out.result.position =
                    <<ClampedOrigin(box[4], box[2] - box[4], out.crop_to_dimensions[1],
                                    frame.shape[2]),
                      ClampedOrigin(box[1], box[3] - box[1], out.crop_to_dimensions[2],
                                    frame.shape[1])>>

\* no targets, two different faces at different places, the crop around the
\* first
C16_Witness ==
    /\ IsCrop /\ out.target_face_encodings = <<>>
    /\ Len(frame.faces) >= 2
    /\ frame.faces[1].encoding # frame.faces[2].encoding
    /\ OriginAroundFace(1) # OriginAroundFace(2)
    /\ out.result.success
    /\ out.result.position = OriginAroundFace(1)

====
